---- MODULE Spec2Model ----
(***************************************************************************)
(* A model of sql_agent.ipynb: the four data-access tools, the dispatcher  *)
(* execute_function_call and the agent loop SQLAgentWithTools.ask.         *)
(*                                                                         *)
(* A Python call is modelled by its outcome: Ret(v) when it returns v and  *)
(* Raise(e) when the exception e leaves it.  A JSON text produced by       *)
(* json.dumps is modelled by the mapping it serialises (a record); an      *)
(* f-string by a record holding its fixed text and the values it embeds.   *)
(*                                                                         *)
(* Two specifications:                                                     *)
(*   Spec      one ask invocation on a constructed agent;                  *)
(*   ToolSpec  the tools and the dispatcher called directly, as the        *)
(*             notebook's test cell does.                                  *)
(***************************************************************************)
EXTENDS Integers, Sequences, FiniteSets, TLC

VARIABLES
    pc,              \* position of ask: IDLE, LOOP, ACT, DONE, EXHAUSTED, RAISED
    question,        \* ask's parameter question
    max_iterations,  \* ask's parameter max_iterations
    iteration,       \* ask's local iteration
    messages,        \* ask's local messages (the conversation)
    idx,             \* position of the for loop over response_message.tool_calls
    result,          \* the value ask returned (at DONE and EXHAUSTED)
    exc,             \* the exception that left ask (at RAISED)
    engineCalls,     \* number of chat.completions.create calls ask has made
    dispatchLog,     \* one entry per execute_function_call made by ask: the
                     \* ToolCall, the tools it called, the connections left open
    probe            \* outcome of the last direct call of a tool or the dispatcher

vars == <<pc, question, max_iterations, iteration, messages, idx, result, exc,
          engineCalls, dispatchLog, probe>>

agentVars == <<pc, question, max_iterations, iteration, messages, idx, result,
               exc, engineCalls, dispatchLog>>

(***************************************************************************)
(* Bounds of the model.                                                    *)
(***************************************************************************)
MaxIter == 2          \* largest max_iterations passed to ask
MaxBatch == 2         \* largest number of ToolCalls in one assistant message
MaxToolCalls == 2     \* largest number of ToolCalls the engine emits in one ask
MaxExtraRows == 2     \* the store holds RowCap + MaxExtraRows rows

(***************************************************************************)
(* Program constants.                                                      *)
(***************************************************************************)
RowCap == 100
SampleLimit == 3

\* Python's None (a null content, an absent tool_calls).
None == "<None>"

Ret(v) == [raised |-> FALSE, value |-> v]
Raise(e) == [raised |-> TRUE, exc |-> e]

Min(a, b) == IF a < b THEN a ELSE b

(***************************************************************************)
(* The relational store.  A table is its name and its number of rows; row  *)
(* i of a result set is modelled by i.  A query is modelled by what the    *)
(* store does with it: valid = FALSE is a statement the store rejects      *)
(* (bad SQL, missing object); a valid one selects the first `limit` rows   *)
(* of the StoreRows rows.  db.up = FALSE is a store that cannot be         *)
(* reached or read, so that every statement raises; db.connects = FALSE is *)
(* one whose file cannot even be opened, so that sqlite3.connect raises.   *)
(* db.scan is the order in which the store happens to walk sqlite_master   *)
(* during the call: the order of the rows of a SELECT without ORDER BY is  *)
(* unspecified.                                                            *)
(***************************************************************************)
StoreRows == RowCap + MaxExtraRows

StoreTables == <<"Album", "Artist", "Track">>

Rows(n) == [i \in 1..n |-> i]

\* the rows of sqlite_master, in the order the tables were created
sqlite_master == <<"Artist", "Track", "Album">>

ScanOrders ==
    {s \in [DOMAIN sqlite_master -> {sqlite_master[i] : i \in DOMAIN sqlite_master}] :
        \A i, j \in DOMAIN s : s[i] = s[j] => i = j}

Databases ==
    [up : {FALSE}, connects : BOOLEAN, scan : {sqlite_master}] \cup
    [up : {TRUE}, connects : {TRUE}, scan : ScanOrders]

\* sqlite3.connect('chinook.db')
connect(db) == IF db.connects THEN Ret("conn") ELSE Raise("OperationalError")

Queries == [valid : {TRUE}, limit : 0..StoreRows] \cup {[valid |-> FALSE, limit |-> 0]}

\* pd.read_sql_query(query, conn)
read_sql_query(query, db) ==
    IF ~db.up THEN Raise("DatabaseError")
    ELSE IF ~query.valid THEN Raise("DatabaseError")
    ELSE Ret(Rows(Min(query.limit, StoreRows)))

\* df.head(n)
head(df, n) == SubSeq(df, 1, Min(n, Len(df)))

\* The structured error every tool's `except Exception` builds.
error_msg(e, text) == [error |-> e, message |-> [text |-> text]]

(***************************************************************************)
(* query_sql_database: the try block, then the function with its handler.  *)
(***************************************************************************)
query_sql_database_try_ge(query, db) ==
    LET df == read_sql_query(query, db) IN
    IF df.raised THEN df
    ELSE IF Len(df.value) = 0
    THEN Ret([message |->
                [text |-> "Query executed successfully but returned no results."]])
    ELSE IF Len(df.value) >= RowCap
    THEN Ret([message |-> [text |-> "Query returned {len(df)} rows. Showing first 100 rows.",
                           rows |-> Len(df.value), shown |-> RowCap],
              data |-> head(df.value, RowCap),
              total_rows |-> Len(df.value)])
    ELSE Ret([message |-> [text |-> "Query returned {len(df)} rows.",
                           rows |-> Len(df.value)],
              data |-> df.value,
              total_rows |-> Len(df.value)])

query_sql_database_try_noempty(query, db) ==
    LET df == read_sql_query(query, db) IN
    IF df.raised THEN df
    ELSE IF Len(df.value) > RowCap
    THEN Ret([message |-> [text |-> "Query returned {len(df)} rows. Showing first 100 rows.",
                           rows |-> Len(df.value), shown |-> RowCap],
              data |-> head(df.value, RowCap),
              total_rows |-> Len(df.value)])
    ELSE Ret([message |-> [text |-> "Query returned {len(df)} rows.",
                           rows |-> Len(df.value)],
              data |-> df.value,
              total_rows |-> Len(df.value)])

query_sql_database_try(query, db) ==
    LET df == read_sql_query(query, db) IN
    IF df.raised THEN df
    ELSE IF Len(df.value) = 0
    THEN Ret([message |->
                [text |-> "Query executed successfully but returned no results."]])
    ELSE IF Len(df.value) > RowCap
    THEN Ret([message |-> [text |-> "Query returned {len(df)} rows. Showing first 100 rows.",
                           rows |-> Len(df.value), shown |-> RowCap],
              data |-> head(df.value, RowCap),
              total_rows |-> Len(df.value)])
    ELSE Ret([message |-> [text |-> "Query returned {len(df)} rows.",
                           rows |-> Len(df.value)],
              data |-> df.value,
              total_rows |-> Len(df.value)])

query_sql_database_unguarded(query, db) == query_sql_database_try(query, db)

query_sql_database(query, db) ==
    LET r == query_sql_database_try(query, db) IN
    IF r.raised
    THEN Ret(error_msg(r.exc,
             "Query failed. Please check your SQL syntax and table/column names."))
    ELSE r

\* The connections a call of query_sql_database has opened and not closed
\* when it returns: conn.close() is the statement after read_sql_query, and
\* the handler closes nothing.
query_sql_database_unclosed(query, db) ==
    IF connect(db).raised THEN 0
    ELSE IF read_sql_query(query, db).raised THEN 1
    ELSE 1 - 1

(***************************************************************************)
(* info_sql_database.  Its argument is the text between the commas of      *)
(* `tables`, in order; strip removes the blanks around a name.             *)
(***************************************************************************)
strip(s) ==
    CASE s = " Album" -> "Album"
      [] s = " Artist" -> "Artist"
      [] s = " Nope" -> "Nope"
      [] OTHER -> s

TableLists == {<<"Album">>, <<"Nope">>, <<"Nope", " Album">>, <<"Album", " Nope">>,
               <<"Artist", " Album">>, <<"Album", " Album">>}

TableRowCount == [Album |-> 5, Artist |-> 2, Track |-> 3]

Range(s) == {s[i] : i \in DOMAIN s}

\* SELECT name FROM sqlite_master WHERE type='table' AND name=?
table_exists(table_name) == table_name \in Range(StoreTables)

\* PRAGMA table_info(table_name), rendered as the schema list
table_schema(table_name) ==
    <<[column_name |-> "Id", data_type |-> "INTEGER", not_null |-> TRUE,
       primary_key |-> TRUE],
      [column_name |-> "Name", data_type |-> "NVARCHAR", not_null |-> FALSE,
       primary_key |-> FALSE]>>

\* SELECT * FROM table_name LIMIT 3, rendered as sample_data
sample_rows(table_name) == Rows(Min(SampleLimit, TableRowCount[table_name]))

table_entry(table_name) ==
    IF ~table_exists(table_name)
    THEN [error |-> [text |-> "Table '{table_name}' does not exist", name |-> table_name]]
    ELSE [schema |-> table_schema(table_name),
          sample_rows |-> sample_rows(table_name),
          row_count |-> Len(sample_rows(table_name))]

info_sql_database_try_abort(tables, db) ==
    IF ~db.up THEN Raise("OperationalError")
    ELSE LET table_list == [i \in DOMAIN tables |-> strip(tables[i])] IN
         IF \E n \in Range(table_list) : ~table_exists(n)
         THEN Raise("OperationalError")
         ELSE Ret([tables |-> [n \in Range(table_list) |-> table_entry(n)]])

info_sql_database_try(tables, db) ==
    IF ~db.up THEN Raise("OperationalError")
    ELSE LET table_list == [i \in DOMAIN tables |-> strip(tables[i])] IN
         Ret([tables |-> [n \in Range(table_list) |-> table_entry(n)]])

info_sql_database(tables, db) ==
    LET r == info_sql_database_try(tables, db) IN
    IF r.raised
    THEN Ret(error_msg(r.exc, "Failed to retrieve table information."))
    ELSE r

\* The connections a call of info_sql_database has opened and not closed
\* when it returns: conn.close() is the statement after the for loop.
info_sql_database_unclosed(tables, db) ==
    IF connect(db).raised THEN 0
    ELSE IF info_sql_database_try(tables, db).raised THEN 1
    ELSE 1 - 1

(***************************************************************************)
(* list_sql_database.                                                      *)
(***************************************************************************)
\* the lexical order of the table names
NameRank == [Album |-> 1, Artist |-> 2, Track |-> 3]

tables_ordered_scan(db) == db.scan

\* SELECT name FROM sqlite_master WHERE type='table' ORDER BY name
tables_ordered(db) == SortSeq(db.scan, LAMBDA a, b : NameRank[a] < NameRank[b])

list_sql_database_try(db) ==
    IF ~db.up THEN Raise("OperationalError")
    ELSE Ret([message |-> [text |-> "Found {len(table_names)} tables in the database",
                           count |-> Len(tables_ordered(db))],
              tables |-> tables_ordered(db)])

list_sql_database(db) ==
    LET r == list_sql_database_try(db) IN
    IF r.raised
    THEN Ret(error_msg(r.exc, "Failed to list database tables."))
    ELSE r

\* The connections a call of list_sql_database has opened and not closed
\* when it returns: conn.close() is the statement before the return.
list_sql_database_unclosed(db) ==
    IF connect(db).raised THEN 0
    ELSE IF list_sql_database_try(db).raised THEN 1
    ELSE 1 - 1

(***************************************************************************)
(* JSON texts and json.loads.  A parsed value is tagged with its JSON      *)
(* type: t = "obj" is a mapping (v a record), anything else is not.  A     *)
(* text that is no key of JsonValue is not JSON.  A tool result that is a  *)
(* JSON text of something other than a mapping is modelled by a record     *)
(* with the single field `scalar`.                                         *)
(***************************************************************************)
QAll == [valid |-> TRUE, limit |-> StoreRows]
QOne == [valid |-> TRUE, limit |-> 1]
QBad == [valid |-> FALSE, limit |-> 0]

JsonValue ==
    [a \in {"{}"} |-> [t |-> "obj", v |-> <<>>]] @@
    [a \in {"{\"verbose\": true}"} |-> [t |-> "obj", v |-> [verbose |-> TRUE]]] @@
    [a \in {"{\"tables\": \"Album, Nope\"}"} |->
        [t |-> "obj", v |-> [tables |-> <<"Album", " Nope">>]]] @@
    [a \in {"{\"query\": \"SELECT * FROM T\"}"} |-> [t |-> "obj", v |-> [query |-> QAll]]] @@
    [a \in {"{\"query\": \"SELECT * FROM T LIMIT 1\"}"} |->
        [t |-> "obj", v |-> [query |-> QOne]]] @@
    [a \in {"{\"query\": \"SELEC * FROM T\"}"} |-> [t |-> "obj", v |-> [query |-> QBad]]] @@
    [a \in {"{\"sql\": \"SELECT * FROM T\"}"} |-> [t |-> "obj", v |-> [sql |-> QAll]]] @@
    [a \in {"[1]"} |-> [t |-> "arr", v |-> <<1>>]] @@
    [a \in {"{\"has_error\": true, \"corrected_query\": \"SELECT * FROM T LIMIT 1\", \"explanation\": \"fixed\"}"} |->
        [t |-> "obj", v |-> [has_error |-> TRUE, corrected_query |-> QOne,
                             explanation |-> "fixed"]]] @@
    [a \in {"42"} |-> [t |-> "num", v |-> 42]]

\* json.loads(text)
json_loads(text) ==
    IF text \in DOMAIN JsonValue THEN Ret(JsonValue[text]) ELSE Raise("JSONDecodeError")

(***************************************************************************)
(* query_sql_checker.  reply is the outcome of its engine call: failed, or *)
(* the content of the engine's message (a text or None).                   *)
(***************************************************************************)
EngineReplies ==
    {[failed |-> TRUE, content |-> None]} \cup
    [failed : {FALSE},
     content : {None, "The query looks fine.", "42",
                "{\"has_error\": true, \"corrected_query\": \"SELECT * FROM T LIMIT 1\", \"explanation\": \"fixed\"}"}]

\* the inner try/except json.JSONDecodeError
checker_parse(query, content) ==
    LET parsed == IF content = None THEN Raise("JSONDecodeError") ELSE json_loads(content) IN
    IF parsed.raised
    THEN [has_errors |-> FALSE, errors |-> <<>>, corrected_query |-> query,
          explanation |-> content]
    ELSE IF parsed.value.t = "obj" THEN parsed.value.v
    ELSE [scalar |-> parsed.value.v]

query_sql_checker_try(query, reply) ==
    IF reply.failed THEN Raise("APIConnectionError")
    ELSE Ret(checker_parse(query, reply.content))

query_sql_checker(query, reply) ==
    LET r == query_sql_checker_try(query, reply) IN
    IF r.raised
    THEN Ret(error_msg(r.exc, "Failed to validate query."))
    ELSE r

(***************************************************************************)
(* The tool registry and the dispatcher.  env is what the world does       *)
(* during one dispatch: the state of the store and the engine's reply to   *)
(* query_sql_checker.  An outcome also records, in `invoked`, the          *)
(* registered tools that were called.                                      *)
(***************************************************************************)
available_functions ==
    {"query_sql_database", "info_sql_database", "list_sql_database", "query_sql_checker"}

\* the parameter names of each registered function's signature
Params(function) ==
    CASE function = "query_sql_database" -> {"query"}
      [] function = "info_sql_database" -> {"tables"}
      [] function = "query_sql_checker" -> {"query"}
      [] function = "list_sql_database" -> {}

Environments == [db : Databases, reply : EngineReplies]

WithInvoked(out, calls) == out @@ [invoked |-> calls]

\* function(**arguments) for a function that takes one named parameter
call_kw(function, arguments, env) ==
    IF arguments.t # "obj" THEN WithInvoked(Raise("TypeError"), <<>>)
    ELSE IF DOMAIN arguments.v # Params(function)
    THEN WithInvoked(Raise("TypeError"), <<>>)
    ELSE WithInvoked(
            CASE function = "query_sql_database" ->
                    query_sql_database(arguments.v.query, env.db)
              [] function = "info_sql_database" ->
                    info_sql_database(arguments.v.tables, env.db)
              [] function = "query_sql_checker" ->
                    query_sql_checker(arguments.v.query, env.reply),
            <<function>>)

\* function()
call_noargs(function, env) == WithInvoked(list_sql_database(env.db), <<function>>)

execute_function_call_unchecked(function_name, arguments, env) ==
    IF function_name \notin available_functions
    THEN WithInvoked(Raise("KeyError"), <<>>)
    ELSE LET call == IF function_name = "list_sql_database"
                     THEN call_noargs(function_name, env)
                     ELSE call_kw(function_name, arguments, env)
         IN  IF call.raised
             THEN WithInvoked(Ret([error |-> call.exc]), call.invoked)
             ELSE call

execute_function_call_retry(function_name, arguments, env) ==
    LET out ==
            IF function_name \in available_functions
            THEN LET call == IF function_name = "list_sql_database"
                             THEN call_noargs(function_name, env)
                             ELSE call_kw(function_name, arguments, env)
                 IN  IF call.raised
                     THEN WithInvoked(Ret([error |-> call.exc]), call.invoked)
                     ELSE call
            ELSE WithInvoked(Ret([error |-> [text |-> "Function {function_name} not found",
                                             name |-> function_name]]), <<>>)
    IN  IF "error" \in DOMAIN out.value
        THEN [raised |-> FALSE, value |-> out.value,
              invoked |-> out.invoked \o out.invoked]
        ELSE out

execute_function_call_noexcept(function_name, arguments, env) ==
    IF function_name \in available_functions
    THEN IF function_name = "list_sql_database"
         THEN call_noargs(function_name, env)
         ELSE call_kw(function_name, arguments, env)
    ELSE WithInvoked(Ret([error |-> [text |-> "Function {function_name} not found",
                                     name |-> function_name]]), <<>>)

execute_function_call_kwargs(function_name, arguments, env) ==
    IF function_name \in available_functions
    THEN LET call == IF function_name = "list_sql_database"
                     THEN IF arguments.t = "obj" /\ DOMAIN arguments.v = {}
                          THEN call_noargs(function_name, env)
                          ELSE WithInvoked(Raise("TypeError"), <<>>)
                     ELSE call_kw(function_name, arguments, env)
         IN  IF call.raised
             THEN WithInvoked(Ret([error |-> call.exc]), call.invoked)
             ELSE call
    ELSE WithInvoked(Ret([error |-> [text |-> "Function {function_name} not found",
                                     name |-> function_name]]), <<>>)

execute_function_call_ordered(function_name, arguments, env) ==
    IF /\ function_name = "query_sql_database"
       /\ \A i \in DOMAIN dispatchLog :
              dispatchLog[i].name \notin {"list_sql_database", "info_sql_database"}
    THEN WithInvoked(Ret([error |-> [text |-> "Inspect the schema first"]]), <<>>)
    ELSE IF function_name \in available_functions
    THEN LET call == IF function_name = "list_sql_database"
                     THEN call_noargs(function_name, env)
                     ELSE call_kw(function_name, arguments, env)
         IN  IF call.raised
             THEN WithInvoked(Ret([error |-> call.exc]), call.invoked)
             ELSE call
    ELSE WithInvoked(Ret([error |-> [text |-> "Function {function_name} not found",
                                     name |-> function_name]]), <<>>)

execute_function_call(function_name, arguments, env) ==
    IF function_name \in available_functions
    THEN LET call == IF function_name = "list_sql_database"
                     THEN call_noargs(function_name, env)
                     ELSE call_kw(function_name, arguments, env)
         IN  IF call.raised
             THEN WithInvoked(Ret([error |-> call.exc]), call.invoked)
             ELSE call
    ELSE WithInvoked(Ret([error |-> [text |-> "Function {function_name} not found",
                                     name |-> function_name]]), <<>>)

\* The connections left open by the tools a dispatch has called
\* (query_sql_checker opens none).
connections_unclosed(invoked, arguments, env) ==
    IF invoked = <<>> THEN 0
    ELSE CASE invoked[1] = "query_sql_database" ->
                    query_sql_database_unclosed(arguments.v.query, env.db)
           [] invoked[1] = "info_sql_database" ->
                    info_sql_database_unclosed(arguments.v.tables, env.db)
           [] invoked[1] = "list_sql_database" ->
                    list_sql_database_unclosed(env.db)
           [] OTHER -> 0

(***************************************************************************)
(* The reasoning engine, as ask sees it: any assistant message.  The       *)
(* ToolCalls it emits are drawn from ToolCallChoices; ids are unique.      *)
(***************************************************************************)
ExhaustionMessage == "Maximum iterations reached. Please try a simpler question."

Questions == {"What are the top 5 best-selling artists by total sales?"}

ToolCallChoices ==
    {[name |-> "list_sql_database", arguments |-> "{}"],
     [name |-> "list_sql_database", arguments |-> "{\"verbose\": true}"],
     [name |-> "info_sql_database", arguments |-> "{\"tables\": \"Album, Nope\"}"],
     [name |-> "query_sql_database", arguments |-> "{\"query\": \"SELECT * FROM T\"}"],
     [name |-> "query_sql_database", arguments |-> "{\"query\": \"SELEC * FROM T\"}"],
     [name |-> "query_sql_database", arguments |-> "{\"sql\": \"SELECT * FROM T\"}"],
     [name |-> "query_sql_database", arguments |-> "[1]"],
     [name |-> "query_sql_database", arguments |-> "{\"query\": "],
     [name |-> "query_sql_checker", arguments |-> "{\"query\": \"SELECT * FROM T LIMIT 1\"}"],
     [name |-> "drop_table", arguments |-> "{}"]}

Batches(room) ==
    UNION {[1..n -> ToolCallChoices] : n \in 1..Min(MaxBatch, room)}

AnswerMessages ==
    [role : {"assistant"},
     content : {"The top 5 best-selling artists are ...", None},
     tool_calls : {[present |-> FALSE, calls |-> <<>>], [present |-> TRUE, calls |-> <<>>]}]

ToolCallMessages(firstId, room) ==
    {[role |-> "assistant",
      content |-> None,
      tool_calls |->
          [present |-> TRUE,
           calls |-> [i \in DOMAIN b |->
                        [id |-> firstId + i - 1, name |-> b[i].name,
                         arguments |-> b[i].arguments]]]] : b \in Batches(room)}

\* the number of ToolCalls the engine has emitted in this ask
Emitted ==
    LET n[i \in 0..Len(messages)] ==
            IF i = 0 THEN 0
            ELSE n[i - 1] + (IF messages[i].role = "assistant"
                             THEN Len(messages[i].tool_calls.calls) ELSE 0)
    IN  n[Len(messages)]

EngineResponses == AnswerMessages \cup ToolCallMessages(Emitted + 1, MaxToolCalls - Emitted)

truthy_not_none(tool_calls) == tool_calls.present

\* `if response_message.tool_calls:` -- None and the empty list are falsy
truthy(tool_calls) == tool_calls.present /\ Len(tool_calls.calls) > 0

(***************************************************************************)
(* SQLAgentWithTools.ask                                                   *)
(***************************************************************************)
Init ==
    /\ pc = "IDLE"
    /\ question = None
    /\ max_iterations = 0
    /\ iteration = 0
    /\ messages = <<>>
    /\ idx = 0
    /\ result = None
    /\ exc = None
    /\ engineCalls = 0
    /\ dispatchLog = <<>>
    /\ probe = [op |-> "none"]

Ask_user_first(q, m) ==
    /\ pc = "IDLE"
    /\ question' = q
    /\ max_iterations' = m
    /\ messages' = <<[role |-> "user", content |-> q],
                     [role |-> "system", content |-> "system_message"]>>
    /\ iteration' = 0
    /\ pc' = "LOOP"
    /\ UNCHANGED <<idx, result, exc, engineCalls, dispatchLog, probe>>

\* ask is called: the conversation is built and iteration is set to 0
Ask(q, m) ==
    /\ pc = "IDLE"
    /\ question' = q
    /\ max_iterations' = m
    /\ messages' = <<[role |-> "system", content |-> "system_message"],
                     [role |-> "user", content |-> q]>>
    /\ iteration' = 0
    /\ pc' = "LOOP"
    /\ UNCHANGED <<idx, result, exc, engineCalls, dispatchLog, probe>>

loop_guard_ne == iteration # max_iterations

loop_guard_le == iteration <= max_iterations

\* the loop condition
loop_guard == iteration < max_iterations

Think_budget(response_message) ==
    /\ pc = "LOOP"
    /\ loop_guard
    /\ iteration' = iteration + 1
    /\ engineCalls' = engineCalls + 1
    /\ messages' = Append(messages, response_message)
    /\ IF truthy(response_message.tool_calls)
       THEN IF iteration + 1 >= max_iterations
            THEN pc' = "EXHAUSTED" /\ idx' = 0 /\ result' = ExhaustionMessage
            ELSE /\ IF Len(response_message.tool_calls.calls) = 0
                    THEN pc' = "LOOP" /\ idx' = 0
                    ELSE pc' = "ACT" /\ idx' = 1
                 /\ UNCHANGED result
       ELSE /\ pc' = "DONE"
            /\ result' = response_message.content
            /\ UNCHANGED idx
    /\ UNCHANGED <<question, max_iterations, exc, dispatchLog, probe>>

\* one pass of the while loop up to the test of response_message.tool_calls
Think(response_message) ==
    /\ pc = "LOOP"
    /\ loop_guard
    /\ iteration' = iteration + 1
    /\ engineCalls' = engineCalls + 1
    /\ messages' = Append(messages, response_message)
    /\ IF truthy(response_message.tool_calls)
       THEN /\ IF Len(response_message.tool_calls.calls) = 0
               THEN pc' = "LOOP" /\ idx' = 0
               ELSE pc' = "ACT" /\ idx' = 1
            /\ UNCHANGED result
       ELSE /\ pc' = "DONE"
            /\ result' = response_message.content
            /\ UNCHANGED idx
    /\ UNCHANGED <<question, max_iterations, exc, dispatchLog, probe>>

EngineFails_retry ==
    /\ pc = "LOOP"
    /\ loop_guard
    /\ iteration' = iteration + 1
    /\ engineCalls' = engineCalls + 1
    /\ pc' = "LOOP"
    /\ exc' = "APIConnectionError"
    /\ UNCHANGED <<question, max_iterations, messages, idx, result, dispatchLog, probe>>

\* the engine call raises: nothing in ask catches it
EngineFails ==
    /\ pc = "LOOP"
    /\ loop_guard
    /\ iteration' = iteration + 1
    /\ engineCalls' = engineCalls + 1
    /\ pc' = "RAISED"
    /\ exc' = "APIConnectionError"
    /\ UNCHANGED <<question, max_iterations, messages, idx, result, dispatchLog, probe>>

\* the assistant message whose tool_calls the for loop is walking
response_message == messages[Len(messages) - idx + 1]

tool_message_first_id(tool_call, function_name, function_response) ==
    [tool_call_id |-> response_message.tool_calls.calls[1].id,
     role |-> "tool",
     name |-> function_name,
     content |-> function_response]

\* the message appended after a dispatch
tool_message(tool_call, function_name, function_response) ==
    [tool_call_id |-> tool_call.id,
     role |-> "tool",
     name |-> function_name,
     content |-> function_response]

more_calls_never == FALSE

\* the for loop has another tool_call to walk
more_calls == idx < Len(response_message.tool_calls.calls)

\* one pass of the for loop over response_message.tool_calls; an exception
\* of json.loads or of execute_function_call leaves ask
Act(env) ==
    /\ pc = "ACT"
    /\ LET tool_call == response_message.tool_calls.calls[idx]
           function_name == tool_call.name
           function_args == json_loads(tool_call.arguments)
       IN  IF function_args.raised
           THEN /\ pc' = "RAISED"
                /\ exc' = function_args.exc
                /\ UNCHANGED <<messages, idx, dispatchLog>>
           ELSE LET function_response ==
                        execute_function_call(function_name, function_args.value, env)
                IN  IF function_response.raised
                    THEN /\ pc' = "RAISED"
                         /\ exc' = function_response.exc
                         /\ dispatchLog' = Append(dispatchLog,
                                                  [id |-> tool_call.id,
                                                   name |-> function_name,
                                                   invoked |-> function_response.invoked,
                                                   unclosed |->
                                                       connections_unclosed(
                                                           function_response.invoked,
                                                           function_args.value, env)])
                         /\ UNCHANGED <<messages, idx>>
                    ELSE /\ messages' = Append(messages,
                                               tool_message(tool_call, function_name,
                                                            function_response.value))
                         /\ dispatchLog' = Append(dispatchLog,
                                                  [id |-> tool_call.id,
                                                   name |-> function_name,
                                                   invoked |-> function_response.invoked,
                                                   unclosed |->
                                                       connections_unclosed(
                                                           function_response.invoked,
                                                           function_args.value, env)])
                         /\ IF more_calls
                            THEN idx' = idx + 1 /\ pc' = "ACT"
                            ELSE idx' = 0 /\ pc' = "LOOP"
                         /\ UNCHANGED exc
    /\ UNCHANGED <<question, max_iterations, iteration, result, engineCalls, probe>>

\* the loop condition fails: the statement after the loop returns
Exhaust ==
    /\ pc = "LOOP"
    /\ ~loop_guard
    /\ result' = ExhaustionMessage
    /\ pc' = "EXHAUSTED"
    /\ UNCHANGED <<question, max_iterations, iteration, messages, idx, exc,
                   engineCalls, dispatchLog, probe>>

MaxIterations == (0 - 1)..MaxIter

Next ==
    \/ \E q \in Questions, m \in MaxIterations : Ask(q, m)
    \/ \E r \in EngineResponses : Think(r)
    \/ EngineFails
    \/ \E env \in Environments : Act(env)
    \/ Exhaust

Spec == Init /\ [][Next]_vars

(***************************************************************************)
(* Several ask invocations on one agent, one after the other has ended, as *)
(* the notebook's example cell makes them.  messages, iteration and the    *)
(* loop variables are locals of ask, built anew by each invocation; ask    *)
(* writes no attribute of the agent.  The return value, the exception and  *)
(* the two logs are those of the invocation under way.                     *)
(***************************************************************************)
SessionQuestions ==
    Questions \cup
    {"Show me the average track length by genre in seconds, but only for genres with more than 10 tracks"}

AskAgain_keep(q, m) ==
    /\ pc \in {"DONE", "EXHAUSTED", "RAISED"}
    /\ question' = q
    /\ max_iterations' = m
    /\ messages' = Append(messages, [role |-> "user", content |-> q])
    /\ iteration' = 0
    /\ idx' = 0
    /\ result' = None
    /\ exc' = None
    /\ engineCalls' = 0
    /\ dispatchLog' = <<>>
    /\ pc' = "LOOP"
    /\ UNCHANGED probe

\* ask is called on an agent whose earlier ask has returned or raised
AskAgain(q, m) ==
    /\ pc \in {"DONE", "EXHAUSTED", "RAISED"}
    /\ question' = q
    /\ max_iterations' = m
    /\ messages' = <<[role |-> "system", content |-> "system_message"],
                     [role |-> "user", content |-> q]>>
    /\ iteration' = 0
    /\ idx' = 0
    /\ result' = None
    /\ exc' = None
    /\ engineCalls' = 0
    /\ dispatchLog' = <<>>
    /\ pc' = "LOOP"
    /\ UNCHANGED probe

SessionNext ==
    \/ \E q \in Questions, m \in MaxIterations : Ask(q, m)
    \/ \E r \in EngineResponses : Think(r)
    \/ EngineFails
    \/ \E env \in Environments : Act(env)
    \/ Exhaust
    \/ \E q \in SessionQuestions, m \in MaxIterations : AskAgain(q, m)

SessionSpec == Init /\ [][SessionNext]_vars

(***************************************************************************)
(* The tools and the dispatcher called directly.  The tools keep no state  *)
(* between calls, so a behaviour is one call from the initial state (and,  *)
(* for list_sql_database, a second call after it).                         *)
(***************************************************************************)
ToolNames == available_functions \cup {"drop_table", "query_database"}

ProbeQuery ==
    /\ probe.op = "none"
    /\ \E q \in Queries, db \in Databases :
            /\ probe' = [op |-> "query_sql_database", query |-> q, db |-> db,
                         out |-> query_sql_database(q, db)]
            /\ UNCHANGED agentVars

ProbeInfo ==
    /\ probe.op = "none"
    /\ \E t \in TableLists, db \in Databases :
            /\ probe' = [op |-> "info_sql_database", tables |-> t, db |-> db,
                         out |-> info_sql_database(t, db)]
            /\ UNCHANGED agentVars

ProbeList ==
    /\ probe.op = "none"
    /\ \E db \in Databases :
            /\ probe' = [op |-> "list_sql_database", db |-> db,
                         out |-> list_sql_database(db)]
            /\ UNCHANGED agentVars

ProbeChecker ==
    /\ probe.op = "none"
    /\ \E q \in {QAll, QOne, QBad}, reply \in EngineReplies :
            /\ probe' = [op |-> "query_sql_checker", query |-> q, reply |-> reply,
                         out |-> query_sql_checker(q, reply)]
            /\ UNCHANGED agentVars

ProbeDispatch ==
    /\ probe.op = "none"
    /\ \E function_name \in ToolNames, a \in DOMAIN JsonValue, env \in Environments :
            /\ probe' = [op |-> "execute_function_call", function_name |-> function_name,
                         arguments |-> a, env |-> env,
                         out |-> execute_function_call(function_name, JsonValue[a], env)]
            /\ UNCHANGED agentVars

\* list_sql_database called a second time, the schema unchanged
ProbeListAgain ==
    /\ probe.op = "list_sql_database"
    /\ \E db \in Databases :
        /\ probe' = [op |-> "list_sql_database again", first |-> probe.out, db |-> db,
                     out |-> list_sql_database(db)]
        /\ UNCHANGED agentVars

ToolNext ==
    \/ ProbeQuery \/ ProbeInfo \/ ProbeList \/ ProbeChecker \/ ProbeDispatch
    \/ ProbeListAgain

ToolSpec == Init /\ [][ToolNext]_vars

(***************************************************************************)
(* Properties.                                                             *)
(***************************************************************************)
Max0(n) == IF n < 0 THEN 0 ELSE n

Returned == pc \in {"DONE", "EXHAUSTED"}

Ended == pc \in {"DONE", "EXHAUSTED", "RAISED"}

CarriesToolCalls(m) == m.tool_calls.present /\ Len(m.tool_calls.calls) >= 1

EveryResponseCarriesToolCalls ==
    \A i \in DOMAIN messages :
        messages[i].role = "assistant" => CarriesToolCalls(messages[i])

LastMessage == messages[Len(messages)]

\* C1: with max_iterations >= 1 and an engine that answers every call with
\* a message carrying at least one ToolCall, ask ends by returning the
\* exhaustion message after exactly max_iterations engine calls.
C1_ExhaustsAfterMaxIterations ==
    (/\ Ended
     /\ max_iterations >= 1
     /\ exc # "APIConnectionError"
     /\ EveryResponseCarriesToolCalls)
    => (/\ pc = "EXHAUSTED"
        /\ result = ExhaustionMessage
        /\ engineCalls = max_iterations)

\* C2: the number of engine calls never exceeds max(0, max_iterations), and
\* with max_iterations <= 0 ask ends with no engine call, returning the
\* exhaustion message.
C2_EngineCallsBounded ==
    /\ engineCalls <= Max0(max_iterations)
    /\ (Ended /\ max_iterations <= 0)
       => (pc = "EXHAUSTED" /\ result = ExhaustionMessage /\ engineCalls = 0)

C2_Witness ==
    pc = "EXHAUSTED" /\ max_iterations = 2 /\ engineCalls = 2

\* C3: a THINK step whose appended assistant message carries no ToolCall
\* ends ask in DONE with that message's content as the value returned, and
\* nothing happens after DONE; one that carries ToolCalls goes to ACT and
\* returns nothing.
C3_ThinkTransition ==
    [][/\ (pc = "LOOP" /\ Len(messages') = Len(messages) + 1)
          => LET m == messages'[Len(messages')] IN
             IF CarriesToolCalls(m)
             THEN pc' = "ACT" /\ idx' = 1 /\ result' = result
             ELSE pc' = "DONE" /\ result' = m.content
       /\ pc = "DONE" => UNCHANGED vars]_vars

C3_Witness ==
    /\ pc = "DONE"
    /\ LastMessage.role = "assistant"
    /\ LastMessage.tool_calls.present
    /\ Len(LastMessage.tool_calls.calls) = 0
    /\ result = LastMessage.content
    /\ Len(dispatchLog) >= 1

C5_UnknownFunction ==
    (probe.op = "execute_function_call"
        /\ probe.function_name \notin available_functions)
    => (/\ ~probe.out.raised
        /\ DOMAIN probe.out.value = {"error"}
        /\ probe.out.value.error.name = probe.function_name
        /\ probe.out.invoked = <<>>)

C5_Witness ==
    /\ probe.op = "execute_function_call"
    /\ probe.function_name = "drop_table"
    /\ probe.arguments = "{\"query\": \"SELECT * FROM T\"}"
    /\ ~probe.out.raised
    /\ probe.out.invoked = <<>>

\* C6: a ToolCall whose argument payload is not JSON never makes ask raise.
C6_ParseFailureNotRaised ==
    ~(pc = "RAISED" /\ exc = "JSONDecodeError")

\* C7: every failure result put into the conversation has both an `error`
\* field and a `message` field, and nothing else.
C7_FailureShape ==
    \A i \in DOMAIN messages :
        (messages[i].role = "tool" /\ "error" \in DOMAIN messages[i].content)
        => DOMAIN messages[i].content = {"error", "message"}

\* C8: none of the four tools raises, whatever the input, the state of the
\* store and the outcome of the engine call; a failure gives an error result.
C8_ToolsNeverRaise ==
    probe.op \in available_functions =>
        /\ ~probe.out.raised
        /\ (probe.op \in {"query_sql_database", "info_sql_database", "list_sql_database"}
              /\ ~probe.db.up) => "error" \in DOMAIN probe.out.value
        /\ (probe.op = "query_sql_database" /\ ~probe.query.valid)
              => "error" \in DOMAIN probe.out.value
        /\ (probe.op = "query_sql_checker" /\ probe.reply.failed)
              => "error" \in DOMAIN probe.out.value

C8_Witness ==
    /\ probe.op = "query_sql_database"
    /\ ~probe.db.up
    /\ ~probe.out.raised
    /\ "error" \in DOMAIN probe.out.value

\* C9: when the engine's reply to query_sql_checker is not JSON (or is
\* None) the result has exactly the fields has_error = false,
\* corrected_query = the input query and explanation = the raw reply.
C9_FallbackShape ==
    (/\ probe.op = "query_sql_checker"
     /\ ~probe.reply.failed
     /\ (probe.reply.content = None \/ json_loads(probe.reply.content).raised))
    => (/\ ~probe.out.raised
        /\ DOMAIN probe.out.value = {"has_error", "corrected_query", "explanation"}
        /\ probe.out.value.has_error = FALSE
        /\ probe.out.value.corrected_query = probe.query
        /\ probe.out.value.explanation = probe.reply.content)

\* C10: a result set of n > 100 rows gives data of exactly the first 100
\* rows, total_rows = n and a message stating the truncation; one of
\* 1 <= n <= 100 rows gives all n rows, total_rows = n and no truncation
\* in the message.
C10_Truncation ==
    (probe.op = "query_sql_database" /\ probe.db.up /\ probe.query.valid) =>
        LET rows == Rows(Min(probe.query.limit, StoreRows))
            n == Len(rows)
            v == probe.out.value
        IN  /\ n > 100 =>
                /\ ~probe.out.raised
                /\ Len(v.data) = 100
                /\ v.data = SubSeq(rows, 1, 100)
                /\ v.total_rows = n
                /\ "shown" \in DOMAIN v.message
                /\ v.message.rows = n
            /\ (1 <= n /\ n <= 100) =>
                /\ ~probe.out.raised
                /\ v.data = rows
                /\ v.total_rows = n
                /\ "shown" \notin DOMAIN v.message
                /\ v.message.rows = n

C10_Witness ==
    /\ probe.op = "query_sql_database"
    /\ probe.db.up
    /\ probe.query.valid
    /\ probe.query.limit = 101
    /\ Len(probe.out.value.data) = 100
    /\ probe.out.value.total_rows = 101

\* C11: a query that runs and selects no row gives the no-rows message and
\* a result with neither a `data` field nor an `error` field.
C11_NoRows ==
    (/\ probe.op = "query_sql_database"
     /\ probe.db.up
     /\ probe.query.valid
     /\ Min(probe.query.limit, StoreRows) = 0)
    => (/\ ~probe.out.raised
        /\ DOMAIN probe.out.value = {"message"}
        /\ probe.out.value.message.text =
              "Query executed successfully but returned no results.")

C11_Witness ==
    /\ probe.op = "query_sql_database"
    /\ probe.db.up
    /\ probe.query.valid
    /\ probe.query.limit = 0
    /\ "data" \notin DOMAIN probe.out.value

\* C12: info_sql_database gives one entry per distinct trimmed name; a name
\* absent from the schema gets an error entry naming it, and every name
\* present gets its column metadata and at most 3 sample rows, wherever
\* the absent name stands in the list.
C12_PartialFailure ==
    (probe.op = "info_sql_database" /\ probe.db.up) =>
        LET names == {strip(probe.tables[i]) : i \in DOMAIN probe.tables} IN
        /\ ~probe.out.raised
        /\ DOMAIN probe.out.value = {"tables"}
        /\ DOMAIN probe.out.value.tables = names
        /\ \A n \in names :
              LET entry == probe.out.value.tables[n] IN
              IF n \in Range(StoreTables)
              THEN /\ DOMAIN entry = {"schema", "sample_rows", "row_count"}
                   /\ entry.schema = table_schema(n)
                   /\ Len(entry.sample_rows) <= 3
                   /\ Len(entry.sample_rows) = Min(3, TableRowCount[n])
                   /\ entry.row_count = Len(entry.sample_rows)
              ELSE /\ DOMAIN entry = {"error"}
                   /\ entry.error.name = n

C12_Witness ==
    /\ probe.op = "info_sql_database"
    /\ probe.db.up
    /\ probe.tables = <<"Nope", " Album">>
    /\ ~probe.out.raised
    /\ "error" \in DOMAIN probe.out.value.tables["Nope"]
    /\ Len(probe.out.value.tables["Album"].sample_rows) = 3

Sorted(t) == \A i, j \in DOMAIN t : i < j => NameRank[t[i]] < NameRank[t[j]]

\* C13: two calls of list_sql_database with no schema change in between
\* return the same table names in the same lexically sorted order, whatever
\* order the store walks its catalogue in; the count reported is the number
\* of names, and the second call still sees every table of the store.
C13_ListIdempotent ==
    /\ (probe.op = "list_sql_database" /\ probe.db.up) =>
          /\ ~probe.out.raised
          /\ Sorted(probe.out.value.tables)
          /\ probe.out.value.message.count = Len(probe.out.value.tables)
          /\ Range(probe.out.value.tables) = Range(sqlite_master)
    /\ (probe.op = "list_sql_database again"
          /\ "error" \notin DOMAIN probe.first.value
          /\ "error" \notin DOMAIN probe.out.value) =>
          /\ probe.out.value.tables = probe.first.value.tables
          /\ probe.out.value = probe.first.value
          /\ Sorted(probe.out.value.tables)
          /\ probe.out.value.message.count = Len(probe.out.value.tables)
          /\ Range(probe.out.value.tables) = Range(sqlite_master)

C13_Witness ==
    /\ probe.op = "list_sql_database again"
    /\ probe.db.up
    /\ probe.db.scan = <<"Track", "Artist", "Album">>
    /\ "error" \notin DOMAIN probe.first.value
    /\ probe.out.value.tables = <<"Album", "Artist", "Track">>
    /\ probe.first.value.tables = probe.out.value.tables

\* every ToolCall of every assistant message has its tool message, in the
\* positions right after that assistant message
NoPartialBatch ==
    \A a \in DOMAIN messages :
        (messages[a].role = "assistant" /\ CarriesToolCalls(messages[a])) =>
            LET calls == messages[a].tool_calls.calls IN
            \A k \in DOMAIN calls :
                /\ a + k <= Len(messages)
                /\ messages[a + k].role = "tool"
                /\ messages[a + k].tool_call_id = calls[k].id

\* C14: at every engine call the conversation sent holds, for every
\* assistant message with ToolCalls, a tool message for each of them,
\* after that message and before any later assistant message.
C14_NoPartialBatch ==
    [][engineCalls' = engineCalls + 1 => NoPartialBatch]_vars

C14_Witness ==
    /\ engineCalls = 2
    /\ Len(messages) >= 6
    /\ Len(messages[3].tool_calls.calls) = 2
    /\ messages[4].role = "tool"
    /\ messages[5].role = "tool"
    /\ messages[6].role = "assistant"

\* the assistant message right before the tool message at position j
PrecedingAssistant(j) ==
    CHOOSE a \in 1..(j - 1) :
        /\ messages[a].role = "assistant"
        /\ \A b \in (a + 1)..(j - 1) : messages[b].role # "assistant"

\* C15: the k-th tool message after an assistant message carries the id
\* and the name of that message's k-th ToolCall, and as content a result
\* of dispatching that call.
C15_ToolMessagesInOrder ==
    \A j \in DOMAIN messages :
        messages[j].role = "tool" =>
            LET a == PrecedingAssistant(j)
                k == j - a
                calls == messages[a].tool_calls.calls
            IN  /\ k \in DOMAIN calls
                /\ messages[j].tool_call_id = calls[k].id
                /\ messages[j].name = calls[k].name
                /\ ~json_loads(calls[k].arguments).raised
                /\ \E env \in Environments :
                      messages[j].content =
                          execute_function_call(calls[k].name,
                                                json_loads(calls[k].arguments).value,
                                                env).value

C15_Witness ==
    /\ Len(messages) >= 5
    /\ messages[3].role = "assistant"
    /\ Len(messages[3].tool_calls.calls) = 2
    /\ messages[3].tool_calls.calls[1].name # messages[3].tool_calls.calls[2].name
    /\ messages[4].role = "tool"
    /\ messages[5].role = "tool"
    /\ messages[4].tool_call_id = messages[3].tool_calls.calls[1].id
    /\ messages[5].tool_call_id = messages[3].tool_calls.calls[2].id
    /\ messages[5].name = messages[3].tool_calls.calls[2].name

\* the ToolCalls the engine has emitted in this ask, in order
EmittedCalls ==
    LET f[i \in 0..Len(messages)] ==
            IF i = 0 THEN <<>>
            ELSE f[i - 1] \o (IF messages[i].role = "assistant"
                              THEN messages[i].tool_calls.calls ELSE <<>>)
    IN  f[Len(messages)]

\* C16: when ask returns, every ToolCall the engine emitted has been given
\* to the dispatcher exactly once, in order; and no dispatch ever calls a
\* tool more than once (no retry), the tool called being the one named.
C16_DispatchedOnce ==
    /\ \A i \in DOMAIN dispatchLog :
          /\ Len(dispatchLog[i].invoked) <= 1
          /\ dispatchLog[i].invoked # <<>> => dispatchLog[i].invoked[1] = dispatchLog[i].name
          /\ \A j \in DOMAIN dispatchLog : dispatchLog[i].id = dispatchLog[j].id => i = j
    /\ Returned =>
          /\ Len(dispatchLog) = Len(EmittedCalls)
          /\ \A i \in DOMAIN dispatchLog :
                /\ dispatchLog[i].id = EmittedCalls[i].id
                /\ dispatchLog[i].name = EmittedCalls[i].name

C16_Witness ==
    /\ pc = "DONE"
    /\ Len(dispatchLog) = 2
    /\ dispatchLog[1].name = "query_sql_database"
    /\ dispatchLog[1].invoked = <<"query_sql_database">>
    /\ messages[4].role = "tool"
    /\ "error" \in DOMAIN messages[4].content
    /\ dispatchLog[2].name = "query_sql_database"

\* C17: a dispatch never ends ask: its result, a failure result included,
\* is appended as the tool message of that call; while the budget is not
\* used up the only step ask takes from the top of the loop is an engine
\* call, and the conversation that call sends holds the tool message of
\* every dispatch made so far.
C17_FailureSurfaced ==
    [][/\ dispatchLog' # dispatchLog =>
             /\ pc' \in {"ACT", "LOOP"}
             /\ Len(messages') = Len(messages) + 1
             /\ SubSeq(messages', 1, Len(messages)) = messages
             /\ messages'[Len(messages')].role = "tool"
             /\ messages'[Len(messages')].tool_call_id =
                    dispatchLog'[Len(dispatchLog')].id
       /\ (pc = "LOOP" /\ iteration < max_iterations) =>
             engineCalls' = engineCalls + 1
       /\ engineCalls' = engineCalls + 1 =>
             \A i \in DOMAIN dispatchLog :
                 \E j \in DOMAIN messages :
                     /\ messages[j].role = "tool"
                     /\ messages[j].tool_call_id = dispatchLog[i].id]_vars

C17_Witness ==
    /\ engineCalls = 2
    /\ Len(messages) >= 5
    /\ messages[4].role = "tool"
    /\ DOMAIN messages[4].content = {"error"}
    /\ messages[5].role = "assistant"

\* C18: the dispatcher raises for no (name, payload); for a registered tool
\* a payload that is not a mapping, or whose keys are not the tool's
\* parameter names, gives an error result and the tool is not run.
C18_DispatcherNeverRaises ==
    probe.op = "execute_function_call" =>
        /\ ~probe.out.raised
        /\ (/\ probe.function_name \in available_functions
            /\ probe.function_name # "list_sql_database"
            /\ \/ JsonValue[probe.arguments].t # "obj"
               \/ DOMAIN JsonValue[probe.arguments].v # Params(probe.function_name))
           => (/\ DOMAIN probe.out.value = {"error"}
               /\ probe.out.value.error = "TypeError"
               /\ probe.out.invoked = <<>>)

C18_Witness ==
    /\ probe.op = "execute_function_call"
    /\ probe.function_name = "query_sql_database"
    /\ probe.arguments = "[1]"
    /\ ~probe.out.raised
    /\ probe.out.value = [error |-> "TypeError"]

\* C19: dispatching list_sql_database calls the tool with no argument: the
\* result is the tool's result on the store, whatever the payload.
C19_ListIgnoresPayload ==
    (probe.op = "execute_function_call" /\ probe.function_name = "list_sql_database")
    => (/\ ~probe.out.raised
        /\ probe.out.invoked = <<"list_sql_database">>
        /\ probe.out.value = list_sql_database(probe.env.db).value)

C19_Witness ==
    /\ probe.op = "execute_function_call"
    /\ probe.function_name = "list_sql_database"
    /\ probe.arguments = "[1]"
    /\ probe.env.db.up
    /\ probe.out.value.tables = <<"Album", "Artist", "Track">>

\* system message, then the user message with the question, then only
\* assistant and tool messages
WellFormed ==
    /\ Len(messages) >= 2
    /\ messages[1] = [role |-> "system", content |-> "system_message"]
    /\ messages[2] = [role |-> "user", content |-> question]
    /\ \A i \in 3..Len(messages) : messages[i].role \in {"assistant", "tool"}

\* C20: once built, the conversation only grows at its end; it is well
\* formed at every engine call, and an engine call that answers appends
\* one message, so what the next engine call sends strictly extends it.
C20_AppendOnly ==
    [][/\ pc # "IDLE" =>
             /\ Len(messages') >= Len(messages)
             /\ SubSeq(messages', 1, Len(messages)) = messages
       /\ engineCalls' = engineCalls + 1 =>
             /\ WellFormed
             /\ pc' # "RAISED" =>
                   /\ Len(messages') = Len(messages) + 1
                   /\ messages'[Len(messages')].role = "assistant"]_vars

C20_Witness ==
    /\ engineCalls = 2
    /\ pc # "RAISED"
    /\ Len(messages) >= 5
    /\ messages[1].role = "system"
    /\ messages[2].role = "user"
    /\ messages[3].role = "assistant"
    /\ messages[4].role = "tool"
    /\ messages[Len(messages)].role = "assistant"

\* C21: whenever control is in the agent loop, every tool called so far has
\* closed the connection it opened, on the success path and on every error
\* path.
C21_ConnectionsClosed ==
    \A i \in DOMAIN dispatchLog : dispatchLog[i].unclosed = 0

\* C22: an engine call of ask that fails ends ask with that failure: no
\* message is appended, nothing is returned, and ask takes no further step
\* (no retry, no other engine call, no dispatch).
C22_EngineFailurePropagates ==
    [][/\ (pc = "LOOP" /\ engineCalls' = engineCalls + 1
                       /\ Len(messages') = Len(messages)) =>
             /\ pc' = "RAISED"
             /\ exc' = "APIConnectionError"
             /\ messages' = messages
             /\ dispatchLog' = dispatchLog
             /\ result' = None
       /\ pc = "RAISED" => UNCHANGED vars]_vars

C22_Witness ==
    /\ pc = "RAISED"
    /\ exc = "APIConnectionError"
    /\ engineCalls = 2
    /\ iteration = 2
    /\ Len(dispatchLog) >= 1
    /\ LastMessage.role = "tool"
    /\ result = None

\* the ToolCall whose dispatch is entry i of dispatchLog
DispatchedCall(i) ==
    CHOOSE c \in Range(EmittedCalls) : c.id = dispatchLog[i].id

\* C23: a ToolCall to query_sql_database whose payload is a mapping with
\* the key query is run whatever was dispatched before it, so that the
\* tool runs even with no list or describe ToolCall earlier in the
\* conversation.
C23_OrderNotEnforced ==
    \A i \in DOMAIN dispatchLog :
        LET c == DispatchedCall(i)
            a == json_loads(c.arguments)
        IN  (/\ c.name = "query_sql_database"
             /\ ~a.raised
             /\ a.value.t = "obj"
             /\ DOMAIN a.value.v = {"query"})
            => dispatchLog[i].invoked = <<"query_sql_database">>

C23_Witness ==
    /\ Len(dispatchLog) >= 1
    /\ dispatchLog[1].name = "query_sql_database"
    /\ dispatchLog[1].invoked = <<"query_sql_database">>
    /\ \A i \in DOMAIN dispatchLog :
          dispatchLog[i].name \notin {"list_sql_database", "info_sql_database"}
    /\ Len(messages) >= 4
    /\ messages[4].role = "tool"
    /\ messages[4].name = "query_sql_database"
    /\ "data" \in DOMAIN messages[4].content

\* C24: whatever the earlier ask calls did, a new ask starts in the state
\* ask(question, max_iterations) starts in on a new agent, and the
\* conversation its first engine call sends is exactly the system message
\* and the user message with the new question.
C24_NoStateSurvives ==
    [][/\ (pc \in {"DONE", "EXHAUSTED", "RAISED"} /\ pc' = "LOOP") =>
             /\ messages' = <<[role |-> "system", content |-> "system_message"],
                              [role |-> "user", content |-> question']>>
             /\ iteration' = 0
             /\ idx' = 0
             /\ result' = None
             /\ exc' = None
             /\ engineCalls' = 0
             /\ dispatchLog' = <<>>
       /\ (pc = "LOOP" /\ iteration = 0 /\ engineCalls' = engineCalls + 1) =>
             messages = <<[role |-> "system", content |-> "system_message"],
                          [role |-> "user", content |-> question]>>]_vars

C24_Witness ==
    /\ question \in SessionQuestions \ Questions
    /\ pc = "DONE"
    /\ engineCalls = 2
    /\ Len(dispatchLog) = 1
    /\ Len(messages) = 5
    /\ messages[2] = [role |-> "user", content |-> question]

\* C25: when ask with max_iterations >= 1 returns the exhaustion message,
\* max_iterations engine calls were made, every ToolCall of every assistant
\* message (the last one included) has been dispatched and has its tool
\* message, and the last message is a tool message no engine call has
\* received; the budget is never checked between THINK and ACT.
C25_BatchDispatchedBeforeExhaustion ==
    [][/\ (pc # "EXHAUSTED" /\ pc' = "EXHAUSTED" /\ max_iterations >= 1) =>
             /\ pc = "LOOP"
             /\ engineCalls = max_iterations
             /\ NoPartialBatch
             /\ LastMessage.role = "tool"
             /\ Len(dispatchLog) = Len(EmittedCalls)
             /\ messages' = messages
             /\ dispatchLog' = dispatchLog
             /\ engineCalls' = engineCalls
             /\ result' = ExhaustionMessage
       /\ (pc = "LOOP" /\ Len(messages') = Len(messages) + 1
                       /\ CarriesToolCalls(messages'[Len(messages')])) =>
             pc' = "ACT"
       /\ pc = "ACT" => pc' \in {"ACT", "LOOP", "RAISED"}]_vars

C25_Witness ==
    /\ pc = "EXHAUSTED"
    /\ max_iterations = 1
    /\ engineCalls = 1
    /\ Len(messages) = 5
    /\ messages[3].role = "assistant"
    /\ Len(messages[3].tool_calls.calls) = 2
    /\ messages[5].role = "tool"
    /\ messages[5].tool_call_id = messages[3].tool_calls.calls[2].id
    /\ Len(dispatchLog) = 2

====
